---- MODULE Spec2Model ----
(***************************************************************************)
(* Model of flopy's ModelTime (flopy/discretization/modeltime.py) and of   *)
(* the two metadata readers it calls (flopy/utils/reference.py).           *)
(*                                                                         *)
(* Floating-point numbers are modelled as exact rationals <<n, d>> in      *)
(* lowest terms with d > 0, so arithmetic identities are checked without   *)
(* rounding.  Python strings are modelled as sequences of atoms; the atoms *)
(* "T", ":", ";", " " and "#" are the single characters the code splits    *)
(* on, every other atom is a run of characters containing none of them.    *)
(***************************************************************************)
EXTENDS Integers, Sequences, FiniteSets, TLC

VARIABLES period_data, time_units, start_datetime, steady_state, reads, last

vars == <<period_data, time_units, start_datetime, steady_state, reads, last>>

(***************************************************************************)
(* Bounds of the model.                                                    *)
(***************************************************************************)
MaxNper == 2
MaxNstp == 3
MaxHeader == 2
MaxLines == 2

(***************************************************************************)
(* Exact rational arithmetic standing for Python float arithmetic.         *)
(***************************************************************************)
Abs(x) == IF x < 0 THEN -x ELSE x

RECURSIVE Gcd(_, _)
Gcd(a, b) == IF b = 0 THEN a ELSE Gcd(b, a % b)

Norm(n, d) ==
    LET g == Gcd(Abs(n), Abs(d))
        s == IF d < 0 THEN -1 ELSE 1
    IN  <<(s * n) \div g, (s * d) \div g>>

Rat(n) == <<n, 1>>
RAdd(a, b) == Norm(a[1] * b[2] + b[1] * a[2], a[2] * b[2])
RSub(a, b) == Norm(a[1] * b[2] - b[1] * a[2], a[2] * b[2])
RMul(a, b) == Norm(a[1] * b[1], a[2] * b[2])
RDiv(a, b) == Norm(a[1] * b[2], a[2] * b[1])
RLe(a, b) == a[1] * b[2] <= b[1] * a[2]

RECURSIVE RPow(_, _)
RPow(a, n) == IF n = 0 THEN Rat(1) ELSE RMul(a, RPow(a, n - 1))

(***************************************************************************)
(* Period data: three parallel sequences perlen, nstp, tsmult.             *)
(***************************************************************************)
PerlenValues == {<<-1, 1>>, <<3, 1>>}
TsmultValues == {<<1, 2>>, <<1, 1>>, <<2, 1>>}
NstpValues == 1..MaxNstp

PeriodDataOfLen(n) ==
    [perlen : [1..n -> PerlenValues],
     nstp   : [1..n -> NstpValues],
     tsmult : [1..n -> TsmultValues]]

PeriodDataValues == UNION {PeriodDataOfLen(n) : n \in 1..MaxNper}

perlen(pd) == pd.perlen
nper(pd) == Len(pd.perlen)
nstp(pd) == pd.nstp
tsmult(pd) == pd.tsmult

\* The step lengths appended for one period, given the list built so far.
RECURSIVE PeriodDelt(_, _, _, _, _)
\* Faulty variant: later steps grow by adding tsmult instead of multiplying.
PeriodDeltAdditive(delt, pl, ns, tm, stp) ==
    IF stp >= ns THEN delt
    ELSE LET dt == IF stp = 0
                   THEN IF tm # Rat(1)
                        THEN RDiv(RMul(pl, RSub(tm, Rat(1))),
                                  RSub(RPow(tm, ns), Rat(1)))
                        ELSE RDiv(pl, Rat(ns))
                   ELSE RAdd(delt[Len(delt)], tm)
         IN  PeriodDelt(Append(delt, dt), pl, ns, tm, stp + 1)

PeriodDelt(delt, pl, ns, tm, stp) ==
    IF stp >= ns THEN delt
    ELSE LET dt == IF stp = 0
                   THEN IF tm # Rat(1)
                        THEN RDiv(RMul(pl, RSub(tm, Rat(1))),
                                  RSub(RPow(tm, ns), Rat(1)))
                        ELSE RDiv(pl, Rat(ns))
                   ELSE RMul(delt[Len(delt)], tm)
         IN  PeriodDelt(Append(delt, dt), pl, ns, tm, stp + 1)

\* The flat list delt over all periods, from period ix on.
RECURSIVE Delt(_, _, _)
Delt(pd, delt, ix) ==
    IF ix > Len(nstp(pd)) THEN delt
    ELSE Delt(pd,
              PeriodDelt(delt, perlen(pd)[ix], nstp(pd)[ix], tsmult(pd)[ix], 0),
              ix + 1)

\* numpy.add.accumulate: the inclusive running sum of a list.
RECURSIVE AccumulateFrom(_, _, _)
AccumulateFrom(xs, k, acc) ==
    IF k > Len(xs) THEN acc
    ELSE AccumulateFrom(xs, k + 1,
             Append(acc, IF k = 1 THEN xs[1] ELSE RAdd(acc[k - 1], xs[k])))

Accumulate(xs) == AccumulateFrom(xs, 1, <<>>)

totim(pd) == Accumulate(Delt(pd, <<>>, 1))

\* tslen's double loop with its running index n (1-based here).
RECURSIVE TslenLoop(_, _, _, _, _, _)
\* Faulty variant: the first step of every period restarts from totim[n].
TslenLoopResetting(tt, ns, ix, i, n, acc) ==
    IF ix > Len(ns) THEN acc
    ELSE IF i >= ns[ix] THEN TslenLoop(tt, ns, ix + 1, 0, n, acc)
    ELSE LET nxt == IF i = 0
                    THEN Append(acc, tt[n])
                    ELSE Append(acc, RSub(tt[n], tt[n - 1]))
         IN  TslenLoop(tt, ns, ix, i + 1, n + 1, nxt)

TslenLoop(tt, ns, ix, i, n, acc) ==
    IF ix > Len(ns) THEN acc
    ELSE IF i >= ns[ix] THEN TslenLoop(tt, ns, ix + 1, 0, n, acc)
    ELSE LET nxt == IF acc = <<>>
                    THEN <<tt[n]>>
                    ELSE Append(acc, RSub(tt[n], tt[n - 1]))
         IN  TslenLoop(tt, ns, ix, i + 1, n + 1, nxt)

tslen(pd) == TslenLoop(totim(pd), nstp(pd), 1, 0, 1, <<>>)

(***************************************************************************)
(* Python values held by the start moment and passed to its setters:       *)
(* None, str, numpy.datetime64 and numpy.timedelta64.  The two numpy kinds *)
(* carry an integer count of hours (dtype datetime64[h] / timedelta64[h]). *)
(***************************************************************************)
HoursPerDay == 24

PyNone == [kind |-> "none", s |-> <<>>, v |-> 0]
Str(s) == [kind |-> "str", s |-> s, v |-> 0]
Dt64(v) == [kind |-> "dt64", s |-> <<>>, v |-> v]
Td64(v) == [kind |-> "td64", s |-> <<>>, v |-> v]

\* Python truthiness of a value read from a metadata mapping.
Truthy(val) == val.kind # "none" /\ ~(val.kind = "str" /\ val.s = <<>>)

\* sep in s
Contains(s, sep) == \E i \in 1..Len(s) : s[i] = sep

\* s.split(sep): the list of segments of s between occurrences of sep.
RECURSIVE Split(_, _)
Split(s, sep) ==
    IF ~Contains(s, sep) THEN <<s>>
    ELSE LET i == CHOOSE k \in 1..Len(s) :
                     s[k] = sep /\ \A j \in 1..(k - 1) : s[j] # sep
         IN  <<SubSeq(s, 1, i - 1)>> \o Split(SubSeq(s, i + 1, Len(s)), sep)

First(xs) == xs[1]
Last(xs) == xs[Len(xs)]

\* sdt.astype('datetime64[D]').astype(sdt.dtype): truncation to the day.
DayOf(v) == (v \div HoursPerDay) * HoursPerDay

\* The outcome of an accessor: the exception raised ("none" when it returns),
\* and the value returned (getter) or the new start moment (setter).
Returns(val) == [err |-> "none", val |-> val]
Raises(e, sdt) == [err |-> e, val |-> sdt]

start_datetime_set(sdt, value) == Returns(value)

start_date_get(sdt) ==
    IF sdt.kind = "dt64"
    THEN LET time == sdt.v - DayOf(sdt.v) IN Returns(Dt64(sdt.v - time))
    ELSE IF sdt.kind = "str" /\ Contains(sdt.s, "T")
    THEN Returns(Str(First(Split(sdt.s, "T"))))
    ELSE Raises("ValueError", PyNone)

start_date_set(sdt, value) ==
    IF sdt.kind = "none" THEN Returns(value)
    ELSE IF sdt.kind = "str"
    THEN IF value.kind # "str" THEN Raises("AssertionError", sdt)
         ELSE LET old == IF Contains(sdt.s, "T")
                         THEN Last(Split(sdt.s, "T"))
                         ELSE <<"00", ":", "00", ":", "00">>
              IN  Returns(Str(value.s \o <<"T">> \o old))
    ELSE IF sdt.kind = "dt64"
    THEN IF value.kind # "td64" THEN Raises("AssertionError", sdt)
         ELSE LET time == sdt.v - DayOf(sdt.v)
              IN  Returns(Td64(value.v + time))
    ELSE Returns(sdt)

\* Faulty variant: the separator test of the string branch is left out.
start_time_get_unchecked(sdt) ==
    IF sdt.kind = "dt64"
    THEN Returns(Td64(sdt.v - DayOf(sdt.v)))
    ELSE IF sdt.kind = "str"
    THEN Returns(Str(Last(Split(sdt.s, "T"))))
    ELSE Raises("ValueError", PyNone)

start_time_get(sdt) ==
    IF sdt.kind = "dt64"
    THEN Returns(Td64(sdt.v - DayOf(sdt.v)))
    ELSE IF sdt.kind = "str" /\ Contains(sdt.s, "T")
    THEN Returns(Str(Last(Split(sdt.s, "T"))))
    ELSE Raises("ValueError", PyNone)

EpochDefault == <<"1970-1-1", "T", "00", ":", "00", ":", "00">>

\* Faulty variant: the old time of day of a structured moment is kept.
start_time_set_untruncated(sdt, value) ==
    LET cur == IF sdt.kind = "none" THEN Str(EpochDefault) ELSE sdt
    IN  IF cur.kind = "str"
        THEN IF value.kind # "str" THEN Raises("AssertionError", sdt)
             ELSE Returns(Str(First(Split(cur.s, "T")) \o <<"T">> \o value.s))
        ELSE IF cur.kind = "dt64"
        THEN IF value.kind # "td64" THEN Raises("AssertionError", sdt)
             ELSE Returns(Dt64(cur.v + value.v))
        ELSE Returns(cur)

start_time_set(sdt, value) ==
    LET cur == IF sdt.kind = "none" THEN Str(EpochDefault) ELSE sdt
    IN  IF cur.kind = "str"
        THEN IF value.kind # "str" THEN Raises("AssertionError", sdt)
             ELSE Returns(Str(First(Split(cur.s, "T")) \o <<"T">> \o value.s))
        ELSE IF cur.kind = "dt64"
        THEN IF value.kind # "td64" THEN Raises("AssertionError", sdt)
             ELSE Returns(Dt64(DayOf(cur.v) + value.v))
        ELSE Returns(cur)

(***************************************************************************)
(* The metadata readers of flopy/utils/reference.py.  A file is a sequence *)
(* of lines, a line a string without its newline.  A mapping ref is a      *)
(* function over RefKeys whose value PyNone stands for an absent key, as   *)
(* ref.get(key, None) reads it.                                            *)
(***************************************************************************)
NamfileFloatKeys == {"xll", "yll", "xul", "yul", "rotation", "epsg"}
NamfileStrKeys == {"proj4_str", "start_date", "start_datetime", "start"}
NamfileCaster == NamfileFloatKeys \cup NamfileStrKeys

UsgsFloatKeys == {"xll", "yll", "xul", "yul", "rotation", "epsg"}
UsgsStrKeys == {"proj4", "start_date"}
UsgsCaster == UsgsFloatKeys \cup UsgsStrKeys

RefKeys == NamfileCaster \cup UsgsCaster \cup {"start_time", "time_units"}

EmptyRef == [k \in RefKeys |-> PyNone]

\* The strings float() and int() accept.
NumericStrings == {<<"100">>}

\* A key as a dictionary index: a one-atom string is that atom.
KeyName(key) == IF Len(key) = 1 THEN key[1] ELSE "?"

\* s.replace(sep, "")
RECURSIVE Remove(_, _)
Remove(s, sep) ==
    IF s = <<>> THEN <<>>
    ELSE IF Head(s) = sep THEN Remove(Tail(s), sep)
    ELSE <<Head(s)>> \o Remove(Tail(s), sep)

\* sep.join(parts)
RECURSIVE Join(_, _)
Join(parts, sep) ==
    IF parts = <<>> THEN <<>>
    ELSE IF Len(parts) = 1 THEN parts[1]
    ELSE parts[1] \o <<sep>> \o Join(Tail(parts), sep)

\* The header tokens of the leading comment lines of a name file.
RECURSIVE NamfileHeader(_)
NamfileHeader(lines) ==
    IF lines = <<>> THEN <<>>
    ELSE IF ~(Len(Head(lines)) > 0 /\ Head(lines)[1] = "#") THEN <<>>
    ELSE Split(Remove(Head(lines), "#"), ";") \o NamfileHeader(Tail(lines))

\* The loop over the header tokens, each split on ":" into key and items.
RECURSIVE NamfileEntries(_, _)
NamfileEntries(header, ref) ==
    IF header = <<>> THEN [err |-> "none", ref |-> ref]
    ELSE LET fields == Split(Head(header), ":")
             key == KeyName(fields[1])
             items == Tail(fields)
         IN  IF key # "proj4_str" /\ items = <<>>
             THEN [err |-> "IndexError", ref |-> ref]
             ELSE IF key \notin NamfileCaster
             THEN [err |-> "KeyError", ref |-> ref]
             ELSE LET item == IF key # "proj4_str"
                              THEN items[1] ELSE Join(items, ":")
                      fails == key \in NamfileFloatKeys
                               /\ item \notin NumericStrings
                      val == IF item = <<"none">> THEN PyNone ELSE Str(item)
                  IN  NamfileEntries(Tail(header),
                         IF fails THEN ref ELSE [ref EXCEPT ![key] = val])

read_attribs_from_namfile_header(namefile) ==
    NamfileEntries(NamfileHeader(namefile), EmptyRef)

\* line.split(): the non-empty segments between blanks.
NonEmpty(parts) == SelectSeq(parts, LAMBDA p : p # <<>>)
SplitBlanks(s) == NonEmpty(Split(s, " "))

RECURSIVE UsgsEntries(_, _)
UsgsEntries(lines, ref) ==
    IF lines = <<>> THEN [err |-> "none", ref |-> ref]
    ELSE LET line == Head(lines)
         IN  IF Len(line) = 0 \/ line[1] = "#"
             THEN UsgsEntries(Tail(lines), ref)
             ELSE LET parts == SplitBlanks(First(Split(line, "#")))
                      key == KeyName(parts[1])
                      data == Join(Tail(parts), " ")
                  IN  IF Len(parts) >= 2 /\ key \in UsgsCaster
                      THEN IF key \in UsgsFloatKeys /\ data \notin NumericStrings
                           THEN [err |-> "ValueError", ref |-> ref]
                           ELSE UsgsEntries(Tail(lines),
                                            [ref EXCEPT ![key] = Str(data)])
                      ELSE UsgsEntries(Tail(lines), ref)

read_usgs_model_reference_file(reffile) == UsgsEntries(reffile, EmptyRef)

(***************************************************************************)
(* ModelTime's two ingestion methods.  A file argument is a record: for    *)
(* the name file present = FALSE is the argument None, for the reference   *)
(* file it is a path that does not exist.  The object's mutable state is   *)
(* the pair st = [sdt, units].                                             *)
(***************************************************************************)
NoFile == [present |-> FALSE, lines |-> <<>>]
File(lines) == [present |-> TRUE, lines |-> lines]

Outcome(st, err, ret) ==
    [sdt |-> st.sdt, units |-> st.units, err |-> err, ret |-> ret]

\* setattr(self, attr, val) on a state that has not raised yet.
SetAttr(o, attr, val) ==
    IF o.err # "none" THEN o
    ELSE IF attr = "_time_units" THEN [o EXCEPT !.units = val]
    ELSE LET r == IF attr = "start_date" THEN start_date_set(o.sdt, val)
                  ELSE start_time_set(o.sdt, val)
         IN  [o EXCEPT !.sdt = r.val, !.err = r.err]

\* The inner loop of attribs_from_namfile_header: the first key of ref_keys
\* whose value is truthy is applied, the others are not looked at.
RECURSIVE ApplyFirstFound(_, _, _, _)
\* Faulty variant: tests "val is not None" instead of the truth of val.
ApplyFirstNotNone(o, ref, attr, ref_keys) ==
    IF ref_keys = <<>> THEN o
    ELSE LET val == ref[Head(ref_keys)]
         IN  IF val.kind # "none" THEN SetAttr(o, attr, val)
             ELSE ApplyFirstFound(o, ref, attr, Tail(ref_keys))

ApplyFirstFound(o, ref, attr, ref_keys) ==
    IF ref_keys = <<>> THEN o
    ELSE LET val == ref[Head(ref_keys)]
         IN  IF Truthy(val) THEN SetAttr(o, attr, val)
             ELSE ApplyFirstFound(o, ref, attr, Tail(ref_keys))

\* The loop body of read_usgs_model_reference_file.
ApplyIfFound(o, ref, attr, ref_key) ==
    IF Truthy(ref[ref_key]) THEN SetAttr(o, attr, ref[ref_key]) ELSE o

attribs_from_namfile_header(st, namefile) ==
    IF ~namefile.present THEN Outcome(st, "none", "False")
    ELSE LET r == read_attribs_from_namfile_header(namefile.lines)
         IN  IF r.err # "none" THEN Outcome(st, r.err, "-")
             ELSE LET o1 == ApplyFirstFound(Outcome(st, "none", "-"), r.ref,
                                            "start_date", <<"start_date", "start">>)
                      o2 == ApplyFirstFound(o1, r.ref,
                                            "start_time", <<"start_time">>)
                  IN  IF o2.err = "none" THEN [o2 EXCEPT !.ret = "True"] ELSE o2

ModelTime_read_usgs_model_reference_file(st, reffile) ==
    IF ~reffile.present THEN Outcome(st, "none", "False")
    ELSE LET r == read_usgs_model_reference_file(reffile.lines)
         IN  IF r.err # "none" THEN Outcome(st, r.err, "-")
             ELSE LET o1 == ApplyIfFound(Outcome(st, "none", "-"), r.ref,
                                         "start_date", "start_date")
                      o2 == ApplyIfFound(o1, r.ref, "start_time", "start_time")
                      o3 == ApplyIfFound(o2, r.ref, "_time_units", "time_units")
                  IN  IF o3.err = "none" THEN [o3 EXCEPT !.ret = "True"] ELSE o3

(***************************************************************************)
(* Inputs.                                                                 *)
(***************************************************************************)
Midnight == <<"00", ":", "00", ":", "00">>
HalfPastTwo == <<"14", ":", "30", ":", "00">>

DateStrings == {<<"2020-06-15">>, <<"2021-01-01">>}
TimeStrings == {Midnight, HalfPastTwo}

\* Values a caller passes as a date: strings, a date as datetime64, and a
\* whole number of days as timedelta64.
DateValues == {Str(d) : d \in DateStrings} \cup {Dt64(72), Td64(72)}

\* Values a caller passes as a time of day.
TimeValues == {Str(t) : t \in TimeStrings} \cup {Td64(0), Td64(13)}

\* Values of the constructor argument start_datetime and of its setter.
MomentValues ==
    {PyNone,
     Str(<<"2020-05-01">>),
     Str(<<"2020-05-01", "T">> \o Midnight),
     Str(<<"2020-05-01", "T">> \o HalfPastTwo),
     Dt64(24),
     Dt64(37),
     Dt64(-11)}

NamfileLines ==
    {<<"#", "start_date", ":", "2021-01-01", ";", "start", ":", "2020-06-15">>,
     <<"#", "start_date", ":", "none", ";", "start", ":", "2020-06-15">>,
     <<"#", "start_datetime", ":", "2021-01-01", "T", "14", ":", "30", ":", "00">>,
     <<"#", "xll", ":", "100", ";", "start_date", ":">>,
     <<"LIST", " ", "2", " ", "model.lst">>}

UsgsLines ==
    {<<"start_date", " ", "2021-01-01">>,
     <<"start_time", " ", "14", ":", "30", ":", "00">>,
     <<"time_units", " ", "seconds", " ", "#", "comment">>,
     <<"start_date">>,
     <<"#", "comment">>}

SeqsUpTo(S, n) == UNION {[1..k -> S] : k \in 0..n}

NamfileValues == {NoFile} \cup {File(ls) : ls \in SeqsUpTo(NamfileLines, MaxHeader)}
ReffileValues == {NoFile} \cup {File(ls) : ls \in SeqsUpTo(UsgsLines, MaxLines)}

(***************************************************************************)
(* The state machine.  `last` records the latest call: its name, its       *)
(* argument, the start moment and time units before it, the value it       *)
(* returned and the exception it raised.  `reads` holds the latest values  *)
(* read from the totim and tslen properties.                               *)
(***************************************************************************)
DefaultUnits == Str(<<"days">>)

Call(op, arg, err, ret) ==
    [op |-> op, arg |-> arg, pre |-> start_datetime, pre_units |-> time_units,
     err |-> err, ret |-> ret]

NoCall == [op |-> "init", arg |-> PyNone, pre |-> PyNone,
           pre_units |-> DefaultUnits, err |-> "none", ret |-> PyNone]

NoReads == [has_totim |-> FALSE, totim |-> <<>>,
            has_tslen |-> FALSE, tslen |-> <<>>]

InitPeriodData ==
    [perlen |-> <<Rat(10)>>, nstp |-> <<1>>, tsmult |-> <<Rat(2)>>]

\* ModelTime(period_data, start_datetime=m)
Init ==
    /\ period_data = InitPeriodData
    /\ time_units = DefaultUnits
    /\ start_datetime \in MomentValues
    /\ steady_state = PyNone
    /\ reads = NoReads
    /\ last = NoCall

\* ModelTime(period_data)
InitSchedule ==
    /\ period_data \in PeriodDataValues
    /\ time_units = DefaultUnits
    /\ start_datetime = PyNone
    /\ steady_state = PyNone
    /\ reads = NoReads
    /\ last = NoCall

Frame == UNCHANGED <<period_data, steady_state, reads>>

SetStartDatetime ==
    \E value \in MomentValues :
        LET r == start_datetime_set(start_datetime, value)
        IN  /\ start_datetime' = r.val
            /\ last' = Call("start_datetime=", value, r.err, PyNone)
            /\ UNCHANGED time_units
            /\ Frame

GetStartDate ==
    LET r == start_date_get(start_datetime)
    IN  /\ last' = Call("start_date", PyNone, r.err, r.val)
        /\ UNCHANGED <<start_datetime, time_units>>
        /\ Frame

SetStartDate ==
    \E value \in DateValues :
        LET r == start_date_set(start_datetime, value)
        IN  /\ start_datetime' = r.val
            /\ last' = Call("start_date=", value, r.err, PyNone)
            /\ UNCHANGED time_units
            /\ Frame

GetStartTime ==
    LET r == start_time_get(start_datetime)
    IN  /\ last' = Call("start_time", PyNone, r.err, r.val)
        /\ UNCHANGED <<start_datetime, time_units>>
        /\ Frame

SetStartTime ==
    \E value \in TimeValues :
        LET r == start_time_set(start_datetime, value)
        IN  /\ start_datetime' = r.val
            /\ last' = Call("start_time=", value, r.err, PyNone)
            /\ UNCHANGED time_units
            /\ Frame

AttribsFromNamfileHeader ==
    \E namefile \in NamfileValues :
        \E o \in {attribs_from_namfile_header(
                     [sdt |-> start_datetime, units |-> time_units], namefile)} :
            /\ start_datetime' = o.sdt
            /\ time_units' = o.units
            /\ last' = Call("attribs_from_namfile_header", namefile, o.err, o.ret)
            /\ Frame

ReadUsgsModelReferenceFile ==
    \E reffile \in ReffileValues :
        \E o \in {ModelTime_read_usgs_model_reference_file(
                     [sdt |-> start_datetime, units |-> time_units], reffile)} :
            /\ start_datetime' = o.sdt
            /\ time_units' = o.units
            /\ last' = Call("read_usgs_model_reference_file", reffile, o.err, o.ret)
            /\ Frame

ReadTotim ==
    /\ reads' = [reads EXCEPT !.has_totim = TRUE, !.totim = totim(period_data)]
    /\ last' = Call("totim", PyNone, "none", PyNone)
    /\ UNCHANGED <<period_data, time_units, start_datetime, steady_state>>

ReadTslen ==
    /\ reads' = [reads EXCEPT !.has_tslen = TRUE, !.tslen = tslen(period_data)]
    /\ last' = Call("tslen", PyNone, "none", PyNone)
    /\ UNCHANGED <<period_data, time_units, start_datetime, steady_state>>

Next ==
    \/ SetStartDatetime
    \/ GetStartDate
    \/ SetStartDate
    \/ GetStartTime
    \/ SetStartTime

NextIngest ==
    \/ SetStartDatetime
    \/ AttribsFromNamfileHeader
    \/ ReadUsgsModelReferenceFile

NextSchedule ==
    \/ ReadTotim
    \/ ReadTslen

Spec == Init /\ [][Next]_vars

SpecIngest == Init /\ [][NextIngest]_vars

SpecSchedule == InitSchedule /\ [][NextSchedule]_vars

(***************************************************************************)
(* Properties of totim and tslen, checked under SpecSchedule.              *)
(***************************************************************************)
RECURSIVE SumInts(_)
SumInts(xs) == IF xs = <<>> THEN 0 ELSE Head(xs) + SumInts(Tail(xs))

\* The sum of xs[a..b], zero when the range is empty.
RECURSIVE RSum(_, _, _)
RSum(xs, a, b) == IF a > b THEN Rat(0) ELSE RAdd(xs[a], RSum(xs, a + 1, b))

\* The number of steps before period i.
StepsBefore(pd, i) == SumInts(SubSeq(pd.nstp, 1, i - 1))

BothRead == reads.has_totim /\ reads.has_tslen

LengthsAndRunningSum ==
    /\ Len(reads.totim) = SumInts(period_data.nstp)
    /\ Len(reads.tslen) = SumInts(period_data.nstp)
    /\ \A k \in 1..Len(reads.totim) :
           reads.totim[k] = RSum(reads.tslen, 1, k)

NonDecreasing ==
    \A k \in 2..Len(reads.totim) : RLe(reads.totim[k - 1], reads.totim[k])

\* C1 as stated: for every period data with nstp[i] >= 1 and tsmult[i] > 0,
\* totim and tslen have length sum(nstp), totim is non-decreasing, and
\* totim[k] is the sum of tslen[0..k] across period boundaries.
C1_TotimNonDecreasingForAnyPerlen ==
    BothRead => LengthsAndRunningSum /\ NonDecreasing

\* C1 amended: totim and tslen have length sum(nstp) and totim[k] is the sum
\* of tslen[0..k] across period boundaries for every period data; totim is
\* non-decreasing when, in addition, every perlen[i] >= 0.
C1_TotimRunningSum ==
    BothRead =>
        /\ LengthsAndRunningSum
        /\ (\A i \in 1..nper(period_data) : RLe(Rat(0), period_data.perlen[i]))
               => NonDecreasing

C1_Witness ==
    /\ BothRead
    /\ nper(period_data) = 2
    /\ \A i \in 1..2 : /\ period_data.perlen[i] = Rat(3)
                       /\ period_data.nstp[i] >= 2
    /\ period_data.tsmult[2] = <<1, 2>>

\* C2: the tslen values of period i sum to perlen[i]; with tsmult[i] = 1
\* every step is perlen[i] / nstp[i]; with tsmult[i] # 1 the steps are a
\* geometric sequence of ratio tsmult[i] with first term
\* perlen[i] * (tsmult[i] - 1) / (tsmult[i]^nstp[i] - 1); with nstp[i] = 1
\* the single step is perlen[i].
C2_PeriodStepsSumToPerlen ==
    reads.has_tslen =>
        \A i \in 1..nper(period_data) :
            LET off == StepsBefore(period_data, i)
                n == period_data.nstp[i]
                pl == period_data.perlen[i]
                tm == period_data.tsmult[i]
                ts == reads.tslen
            IN  /\ RSum(ts, off + 1, off + n) = pl
                /\ tm = Rat(1) => \A s \in 1..n : ts[off + s] = RDiv(pl, Rat(n))
                /\ tm # Rat(1) =>
                       /\ ts[off + 1] = RDiv(RMul(pl, RSub(tm, Rat(1))),
                                             RSub(RPow(tm, n), Rat(1)))
                       /\ \A s \in 2..n : ts[off + s] = RMul(ts[off + s - 1], tm)
                /\ n = 1 => ts[off + 1] = pl

C2_Witness ==
    /\ reads.has_tslen
    /\ nper(period_data) = 2
    /\ period_data.tsmult[1] = Rat(1) /\ period_data.nstp[1] = 1
    /\ period_data.tsmult[2] = Rat(2) /\ period_data.nstp[2] = MaxNstp
    /\ period_data.perlen[2] = Rat(3)

(***************************************************************************)
(* Properties of the start-moment accessors, checked under Spec.           *)
(***************************************************************************)
HasSeparator(m) == m.kind = "str" /\ Contains(m.s, "T")
DateOnlyString(m) == m.kind = "str" /\ ~Contains(m.s, "T")

\* The prior states the accessor claims speak of: unset, a string with or
\* without separator, a structured date-time.
ClaimedPrior(m) == m.kind \in {"none", "str", "dt64"}

TimeSetDone == last.op = "start_time=" /\ last.err = "none"

\* C3 on a structured date-time: after start_date is set to d, reading
\* start_date returns d and reading start_time returns what it returned before.
C3_StructuredDateSetRoundTrip ==
    (last.op = "start_date=" /\ last.pre.kind = "dt64"
        /\ last.arg.kind \in {"dt64", "td64"}) =>
        /\ last.err = "none"
        /\ start_date_get(start_datetime).err = "none"
        /\ start_date_get(start_datetime).val.v = last.arg.v
        /\ start_time_get(start_datetime) = start_time_get(last.pre)

\* C4 as stated: for any prior state, after start_time is set to t, reading
\* start_time returns t and reading start_date gives what it gave before.
C4_TimeSetKeepsDateReadForAnyPrior ==
    (TimeSetDone /\ ClaimedPrior(last.pre)) =>
        /\ start_time_get(start_datetime) = Returns(last.arg)
        /\ start_date_get(start_datetime) = start_date_get(last.pre)

\* C4 amended: after start_time is set to t, reading start_time returns t;
\* reading start_date returns what it returned before when the prior moment
\* was structured or a string with a separator, returns the whole prior
\* string when that was a date-only string, and returns the default date of
\* the time setter when the moment was unset (in the last two cases the
\* read failed before the set).
C4_TimeSetRoundTrip ==
    (TimeSetDone /\ ClaimedPrior(last.pre)) =>
        /\ start_time_get(start_datetime) = Returns(last.arg)
        /\ (last.pre.kind = "dt64" \/ HasSeparator(last.pre)) =>
               start_date_get(start_datetime) = start_date_get(last.pre)
        /\ DateOnlyString(last.pre) =>
               /\ start_date_get(last.pre).err = "ValueError"
               /\ start_date_get(start_datetime) = Returns(last.pre)
        /\ last.pre.kind = "none" =>
               /\ start_date_get(last.pre).err = "ValueError"
               /\ start_date_get(start_datetime) =
                      Returns(Str(First(Split(EpochDefault, "T"))))

C4_Witness ==
    /\ TimeSetDone
    /\ last.pre = Dt64(37)
    /\ last.arg = Td64(0)
    /\ start_datetime = Dt64(24)

\* C5: a start_date or start_time set on a moment that holds a structured
\* date-time leaves a structured date-time, and on a string leaves a string.
C5_RepresentationPreserved ==
    (last.op \in {"start_date=", "start_time="}
        /\ last.pre.kind \in {"str", "dt64"}) =>
        start_datetime.kind = last.pre.kind

GetFailed == last.err = "ValueError" /\ start_datetime = last.pre

GettersFailWithoutSplit ==
    (last.op \in {"start_date", "start_time"}
        /\ (last.pre.kind = "none" \/ DateOnlyString(last.pre))) => GetFailed

\* C9 as stated: a start_date or start_time get on an unset moment or on a
\* string without separator fails, a start_time set on a date-only string
\* fails, and every such failure leaves the start moment unchanged.
C9_TimeSetOnDateOnlyStringFails ==
    /\ GettersFailWithoutSplit
    /\ (last.op = "start_time=" /\ DateOnlyString(last.pre)) =>
           /\ last.err # "none"
           /\ start_datetime = last.pre

\* C9 amended: a start_date or start_time get on an unset moment or on a
\* string without separator fails and leaves the start moment unchanged; a
\* start_time set of a string t on a date-only string s does not fail, the
\* moment becomes s + "T" + t.
C9_GettersFailSetterAppends ==
    /\ GettersFailWithoutSplit
    /\ (last.op = "start_time=" /\ DateOnlyString(last.pre)
           /\ last.arg.kind = "str") =>
           /\ last.err = "none"
           /\ start_datetime = Str(last.pre.s \o <<"T">> \o last.arg.s)

C9_Witness ==
    /\ last.op = "start_time="
    /\ last.pre = Str(<<"2020-05-01">>)
    /\ last.arg = Str(HalfPastTwo)
    /\ start_datetime = Str(<<"2020-05-01", "T">> \o HalfPastTwo)

\* C10: on an unset moment, setting start_time to the string t gives
\* "1970-01-01T" + t; on a string with a separator, setting start_date to d
\* gives d + "T" + the previous time substring.
C10_EpochDefaultAndDateReplace ==
    /\ (last.op = "start_time=" /\ last.pre.kind = "none"
           /\ last.arg.kind = "str") =>
           start_datetime = Str(<<"1970-01-01", "T">> \o last.arg.s)
    /\ (last.op = "start_date=" /\ HasSeparator(last.pre)
           /\ last.arg.kind = "str") =>
           start_datetime =
               Str(last.arg.s \o <<"T">> \o Last(Split(last.pre.s, "T")))

(***************************************************************************)
(* Properties of the two ingestion methods, checked under SpecIngest.      *)
(***************************************************************************)
NamfileCall == last.op = "attribs_from_namfile_header"
ReffileCall == last.op = "read_usgs_model_reference_file"

\* The first value of ref, in the order of keys, that is present and
\* non-empty; PyNone when there is none.
RECURSIVE FirstPresent(_, _)
FirstPresent(ref, keys) ==
    IF keys = <<>> THEN PyNone
    ELSE IF Truthy(ref[Head(keys)]) THEN ref[Head(keys)]
    ELSE FirstPresent(ref, Tail(keys))

NoneOf(ref, keys) == \A k \in keys : ~Truthy(ref[k])

\* The value a reference file gives for key: the words after the key on the
\* last line that starts with it, comments removed; <<>> when no line does.
RECURSIVE FileValue(_, _)
FileValue(lines, key) ==
    IF lines = <<>> THEN <<>>
    ELSE LET line == Last(lines)
             parts == SplitBlanks(First(Split(line, "#")))
         IN  IF Len(parts) >= 2 /\ parts[1] = <<key>>
             THEN Join(Tail(parts), " ")
             ELSE FileValue(SubSeq(lines, 1, Len(lines) - 1), key)

\* C6: name-file ingestion with None returns false; otherwise it returns
\* true and the first of the keys start_date, start_datetime, start that is
\* present with a non-empty value becomes the whole start_datetime.
C6_NamfileAliasFullMomentSet ==
    NamfileCall =>
        IF ~last.arg.present THEN last.ret = "False"
        ELSE LET r == read_attribs_from_namfile_header(last.arg.lines)
                 val == FirstPresent(r.ref,
                            <<"start_date", "start_datetime", "start">>)
             IN  r.err = "none" =>
                     /\ last.ret = "True"
                     /\ Truthy(val) => start_datetime = val

\* The date of a string moment: the text before the separator, the whole
\* string when it has none.
DatePart(m) == IF m.kind = "str" THEN First(Split(m.s, "T")) ELSE <<>>

\* C7: reference-file ingestion of an existing file applies each of the keys
\* start_date, start_time and time_units the file gives a value for: then
\* time_units is the file's time_units, the date of the moment is the file's
\* start_date and its time of day is the file's start_time.
C7_ReffileAppliesEveryKey ==
    (ReffileCall /\ last.arg.present) =>
        LET date == FileValue(last.arg.lines, "start_date")
            time == FileValue(last.arg.lines, "start_time")
            units == FileValue(last.arg.lines, "time_units")
        IN  /\ last.ret = "True"
            /\ units # <<>> => time_units = Str(units)
            /\ date # <<>> => DatePart(start_datetime) = date
            /\ time # <<>> => start_time_get(start_datetime) = Returns(Str(time))

MomentKept == start_datetime = last.pre
UnitsKept == time_units = last.pre_units

\* C8: both ingestions are additive partial updates.  A name-file ingestion
\* with None, or a reference-file ingestion of a missing file, returns false
\* and changes nothing; a call whose metadata has none of the start-moment
\* keys (or only empty values for them) keeps start_datetime; a reference
\* file without time_units keeps time_units and a name file always does;
\* period data and steady_state are never changed.
C8_IngestionKeepsWhatIsAbsent ==
    /\ period_data = InitPeriodData
    /\ steady_state = PyNone
    /\ NamfileCall =>
           LET r == read_attribs_from_namfile_header(last.arg.lines)
           IN  /\ UnitsKept
               /\ ~last.arg.present => last.ret = "False" /\ MomentKept
               /\ r.err # "none" => MomentKept
               /\ NoneOf(r.ref, {"start_date", "start_datetime", "start",
                                 "start_time"}) => MomentKept
    /\ ReffileCall =>
           LET r == read_usgs_model_reference_file(last.arg.lines)
           IN  /\ ~last.arg.present =>
                      last.ret = "False" /\ MomentKept /\ UnitsKept
               /\ r.err # "none" => MomentKept /\ UnitsKept
               /\ NoneOf(r.ref, {"start_date", "start_time"}) => MomentKept
               /\ NoneOf(r.ref, {"time_units"}) => UnitsKept

C8_Witness ==
    /\ ReffileCall
    /\ last.arg = File(<<<<"#", "comment">>, <<"start_date">>>>)
    /\ last.ret = "True"
    /\ last.pre = Str(<<"2020-06-15", "T">> \o HalfPastTwo)
    /\ start_datetime = last.pre

====
